---- MODULE Spec2Model ----
(***************************************************************************)
(* Model of peakdet's two drivers:                                         *)
(*   - workflow()  in src/peakdet/cli/run.py   (batch HRV report)          *)
(*   - peakdet()   in src/peakdet/workflow.py  (per-column processing)     *)
(* Text is a sequence of string tokens; "," and "\n" are tokens of their   *)
(* own, so that header comparison, split and strip are computed as the     *)
(* code computes them.                                                     *)
(***************************************************************************)
EXTENDS Integers, Sequences, FiniteSets, TLC

VARIABLES
    prog,          \* which entry point this behaviour exercises
    \* ---- workflow(): disk
    reportExists,  \* os.path.exists(output)
    report,        \* persisted text of the report file
    hist,          \* history artifacts on disk, by artifact name
    \* ---- workflow(): the running call
    run,           \* number of calls of workflow() started so far
    pc,            \* position in workflow()
    args,          \* keyword arguments of the current call
    measurements,  \* local `measurements` (attribute names in effect)
    eheader,       \* local `eheader` (first line of a pre-existing report)
    i,             \* loop position in `files` (1-based)
    data,          \* local `data` (the record being processed)
    buf,           \* text written to `dest` and not yet on disk
    warned,        \* warnings.warn was called in this call
    err,           \* exception that ended this call ("" if none)
    \* ---- workflow(): history of the calls (observation only)
    calls,         \* functions invoked per file in this call
    present,       \* files whose artifact existed when the loop reached them
    recs,          \* record handed to peakdet.HRV per file in this call
    rows,          \* row written per file in this call
    saved,         \* files whose history was saved in this call
    edited,        \* files whose record the editor changed in this call
    report0,       \* report text on disk when this call started
    prevRows,      \* `rows` of the previous call
    prevSaved,     \* `saved` of the previous call
    \* ---- peakdet()
    pargs,         \* arguments and input files of the call
    ppc,           \* position in peakdet()
    pcols,         \* data.columns, as positions in the original file
    pidx,          \* `idx` of the column loop (0-based)
    perr,          \* exception that ended the call ("" if none)
    searched,      \* find_chtrig was called
    physios,       \* Physio objects created: column and fs given
    processed,     \* columns process_signals has returned for
    outputs        \* columns whose outputs were written

wvars == <<reportExists, report, hist, run, pc, args, measurements, eheader, i,
           data, buf, warned, err, calls, present, recs, rows, saved, edited,
           report0, prevRows, prevSaved>>

pvars == <<pargs, ppc, pcols, pidx, perr, searched, physios, processed, outputs>>

vars == <<prog, wvars, pvars>>

\* ------------------------------------------------------------------ bounds
NumFiles == 2
MaxRuns == 2
MaxPeaks == 3
\* size of dest's buffer, in tokens (8192 bytes in CPython)
BufferSize == 12

FileIds == 1..NumFiles

\* ------------------------------------------------------- tables of run.py
MODALITIES == {"ECG", "PPG", "RESP"}

\* cutoffs of MODALITIES in 1/100 Hz
Cutoffs(modality) ==
    CASE modality = "ECG" -> <<500, 1500>>
      [] modality = "PPG" -> <<200>>
      [] modality = "RESP" -> <<5, 50>>

\* two of the seventeen entries of ATTR_CONV
AttrKeys == <<"Average NN intervals", "Root mean square of successive differences">>

ATTR_CONV(key) ==
    CASE key = "Average NN intervals" -> "avgnn"
      [] key = "Root mean square of successive differences" -> "rmssd"

\* ------------------------------------------------------------ text helpers
NL == "\n"
COMMA == ","

RECURSIVE Join(_)
\* ",".join(fields)
Join(fields) ==
    IF Len(fields) = 0 THEN <<>>
    ELSE IF Len(fields) = 1 THEN <<fields[1]>>
    ELSE <<fields[1], COMMA>> \o Join(Tail(fields))

RECURSIVE SplitOn(_, _, _)
\* text.split(sep) with `cur` the field being collected
SplitOn(text, sep, cur) ==
    IF Len(text) = 0 THEN <<cur>>
    ELSE IF Head(text) = sep THEN <<cur>> \o SplitOn(Tail(text), sep, <<>>)
    ELSE SplitOn(Tail(text), sep, Append(cur, Head(text)))

RECURSIVE ReadLinesFrom(_, _)
\* src.readlines(): every line keeps its trailing newline
ReadLinesFrom(text, cur) ==
    IF Len(text) = 0 THEN (IF Len(cur) = 0 THEN <<>> ELSE <<cur>>)
    ELSE IF Head(text) = NL THEN <<Append(cur, NL)>> \o ReadLinesFrom(Tail(text), <<>>)
    ELSE ReadLinesFrom(Tail(text), Append(cur, Head(text)))

ReadLines(text) == ReadLinesFrom(text, <<>>)

RECURSIVE StripLeft(_)
StripLeft(field) ==
    IF Len(field) > 0 /\ Head(field) = NL THEN StripLeft(Tail(field)) ELSE field

RECURSIVE StripRight(_)
StripRight(field) ==
    IF Len(field) > 0 /\ field[Len(field)] = NL
    THEN StripRight(SubSeq(field, 1, Len(field) - 1))
    ELSE field

RECURSIVE Concat(_)
\* the string a field's tokens spell
Concat(field) == IF Len(field) = 0 THEN "" ELSE Head(field) \o Concat(Tail(field))

\* f.strip()
Strip(field) == Concat(StripRight(StripLeft(field)))

\* --------------------------------------------------- values and sentinels
None == <<"None">>          \* measurements=None (nothing selected)
NoData == -1                \* no record bound to `data`
EmptyStr == -1              \* the "" default of getattr(hrv, attr, "")
NoHist == <<>>              \* no artifact under that name

Data == 0..MaxPeaks         \* a record, identified by its number of peaks

\* os.path.relpath(fname) of the f-th file glob.glob returned
FName(f) == "f" \o ToString(f)

\* os.path.join(dirname(fname), "." + basename(fname) + ".json")
OutName(fname) == "." \o fname \o ".json"

HistNames == {OutName(FName(f)) : f \in FileIds}

\* ------------------------------------------- collaborators outside src/
\* attributes peakdet.HRV defines (the values of ATTR_CONV)
HRVAttrs == {ATTR_CONV(AttrKeys[k]) : k \in 1..Len(AttrKeys)}

\* peakdet.HRV(data) raises when the record has fewer than 2 peaks
HRVFails(d) == d < 2

\* value of an HRV attribute in 1e-6 units: one value per (record, attribute)
HRVValue(d, attr) == d * 250003 + (IF attr = "avgnn" THEN 800000000 ELSE 17)

\* peaks found by load -> filter_physio -> peakfind_physio on the f-th file
\* (deterministic for a given file)
Detected(f) == IF f % 2 = 1 THEN 2 ELSE 1

\* filter_physio rejects a cutoff that is not below the Nyquist frequency
\* (fs in Hz, cutoffs in 1/100 Hz)
FilterFails(fs, modality) ==
    \E k \in 1..Len(Cutoffs(modality)) : 2 * Cutoffs(modality)[k] >= 100 * fs

\* records edit_physio can hand back: a peak added, a peak deleted, or as is
EditResults(d) == {e \in Data : e - d \in {-1, 0, 1}}

\* save_history / load_history: the artifact holds the record
SaveHistoryRec(d) == <<d>>
LoadHistoryRec(h) == h[1]

\* ------------------------------------------------- workflow(): startup
\* line 171: [ATTR_CONV[attr] for attr in measurements]
MapAttr(requested) == [k \in 1..Len(requested) |-> ATTR_CONV(requested[k])]

\* line 177: head = "filename," + ",".join(measurements)
HeadOf(attrs) == <<"filename", COMMA>> \o Join(attrs)

\* line 191: [f.strip() for f in eheader.split(",")[1:]]
ParseHeader(eh) ==
    LET fields == SplitOn(eh, COMMA, <<>>)
    IN  [k \in 1..(Len(fields) - 1) |-> Strip(fields[k + 1])]

\* line 184: the comparison that decides the warning
HeaderDiffers(eh, head) == eh # head

\* the header check without line 191: the requested measurements stay
KeepRequested(exists, eh, head, attrs) == attrs

\* lines 178-191: the measurements in effect after the header check
EffectiveMeasurements(exists, eh, head, attrs) ==
    IF exists /\ HeaderDiffers(eh, head) THEN ParseHeader(eh) ELSE attrs

\* lines 192-195: what dest.write(head) writes
HeadToWrite(exists, head) == IF exists THEN <<>> ELSE Append(head, NL)

\* ------------------------------------------------- workflow(): the row
\* getattr(hrv, attr, "")
GetAttr(d, attr) == IF attr \in HRVAttrs THEN HRVValue(d, attr) ELSE EmptyStr

\* "{:.5f}".format(x) for a number x (1e-6 units): rounded to 1e-5, half to even
Format5(x) ==
    LET q == x \div 10
        r == x % 10
    IN  ToString(IF r > 5 \/ (r = 5 /\ q % 2 = 1) THEN q + 1 ELSE q)

\* "{:.5f}".format("") raises ValueError
FormatFails(d, meas) == \E k \in 1..Len(meas) : GetAttr(d, meas[k]) = EmptyStr

\* line 238
Outputs(d, meas) == [k \in 1..Len(meas) |-> Format5(GetAttr(d, meas[k]))]

\* line 241: ",".join([fname] + outputs) + "\n"
Row(fname, d, meas) == Append(Join(<<fname>> \o Outputs(d, meas)), NL)

\* line 210 with the check lost: the artifact is never looked for
NeverExists(h) == FALSE

\* line 210: os.path.exists(outname)
HistoryExists(h) == h # NoHist

\* ------------------------------------------------- workflow(): inputs
DefaultArgs ==
    [measurements |-> AttrKeys, modality |-> "ECG", fs |-> 100,
     noedit |-> FALSE, savehistory |-> TRUE]

\* the keyword arguments a call is given: the defaults, or the defaults with
\* one argument changed
ArgChoices ==
    {DefaultArgs}
    \cup {[DefaultArgs EXCEPT !.measurements = m] :
            m \in {<<AttrKeys[2]>>, None}}
    \cup {[DefaultArgs EXCEPT !.modality = "EEG"]}
    \cup {[DefaultArgs EXCEPT !.fs = 25]}
    \cup {[DefaultArgs EXCEPT !.noedit = TRUE]}
    \cup {[DefaultArgs EXCEPT !.savehistory = FALSE]}

\* a report left by an earlier version, whose metric no HRV result has
ForeignReport == <<"filename", COMMA, "foo", NL>>

Running == {"loop", "edit", "save", "hrv"}

NoCalls == [f \in FileIds |-> {}]
NoRecs == [f \in FileIds |-> NoData]
NoRows == [f \in FileIds |-> <<>>]

WorkflowInit ==
    /\ reportExists \in BOOLEAN
    /\ report = IF reportExists THEN ForeignReport ELSE <<>>
    /\ hist \in {[n \in HistNames |-> NoHist],
                [n \in HistNames |->
                    IF n = OutName(FName(1)) THEN SaveHistoryRec(2) ELSE NoHist]}
    /\ run = 0
    /\ pc = "idle"
    /\ args = DefaultArgs
    /\ measurements = <<>>
    /\ eheader = <<>>
    /\ i = 1
    /\ data = NoData
    /\ buf = <<>>
    /\ warned = FALSE
    /\ err = ""
    /\ calls = NoCalls
    /\ present = {}
    /\ recs = NoRecs
    /\ rows = NoRows
    /\ saved = {}
    /\ edited = {}
    /\ report0 = report
    /\ prevRows = NoRows
    /\ prevSaved = {}

\* dest after a write that leaves `pending` unwritten: past the buffer size
\* everything goes to the file, otherwise everything stays in the buffer
Spilled(pending) == IF Len(pending) > BufferSize THEN pending ELSE <<>>
Held(pending) == IF Len(pending) > BufferSize THEN <<>> ELSE pending

\* an exception leaves the `with open(output, "a+")` block: dest is closed,
\* which writes out what it holds
Raise(e) ==
    /\ pc' = "failed"
    /\ err' = e
    /\ report' = report \o buf
    /\ buf' = <<>>

\* lines 157-198: from the call to dest.write(head)
StartRun(a) ==
    /\ prog = "workflow"
    /\ pc \in {"idle", "done", "failed", "killed"}
    /\ run < MaxRuns
    /\ run' = run + 1
    /\ args' = a
    /\ i' = 1
    /\ data' = NoData
    /\ calls' = NoCalls
    /\ present' = {}
    /\ recs' = NoRecs
    /\ rows' = NoRows
    /\ saved' = {}
    /\ edited' = {}
    /\ report0' = report
    /\ prevRows' = rows
    /\ prevSaved' = saved
    /\ UNCHANGED <<prog, pvars, hist>>
    /\ IF a.measurements = None
       THEN \* ", ".join(None): TypeError, before the report is opened
            /\ pc' = "failed"
            /\ err' = "TypeError"
            /\ measurements' = <<>>
            /\ eheader' = <<>>
            /\ warned' = FALSE
            /\ buf' = <<>>
            /\ UNCHANGED <<reportExists, report>>
       ELSE LET attrs == MapAttr(a.measurements)
                head == HeadOf(attrs)
                lines == IF reportExists THEN ReadLines(report) ELSE <<>>
            IN  IF reportExists /\ Len(lines) = 0
                THEN \* src.readlines()[0] on an empty file: IndexError
                     /\ pc' = "failed"
                     /\ err' = "IndexError"
                     /\ measurements' = attrs
                     /\ eheader' = <<>>
                     /\ warned' = FALSE
                     /\ buf' = <<>>
                     /\ UNCHANGED <<reportExists, report>>
                ELSE LET eh == IF reportExists THEN lines[1] ELSE <<>>
                     IN  /\ eheader' = eh
                         /\ warned' = (reportExists /\ HeaderDiffers(eh, head))
                         /\ measurements' =
                                EffectiveMeasurements(reportExists, eh, head, attrs)
                         /\ report' = report \o Spilled(HeadToWrite(reportExists, head))
                         /\ buf' = Held(HeadToWrite(reportExists, head))
                         /\ reportExists' = TRUE
                         /\ pc' = "loop"
                         /\ err' = ""

\* lines 210-211: the artifact exists, the record comes from load_history
LoadFromHistory ==
    /\ prog = "workflow"
    /\ pc = "loop"
    /\ i <= NumFiles
    /\ HistoryExists(hist[OutName(FName(i))])
    /\ data' = LoadHistoryRec(hist[OutName(FName(i))])
    /\ calls' = [calls EXCEPT ![i] = @ \cup {"load_history"}]
    /\ present' = present \cup {i}
    /\ pc' = "edit"
    /\ UNCHANGED <<prog, pvars, reportExists, report, hist, run, args, measurements,
                   eheader, i, buf, warned, err, recs, rows, saved, edited,
                   report0, prevRows, prevSaved>>

\* lines 212-224: load, filter, detect
LoadAndDetect ==
    /\ prog = "workflow"
    /\ pc = "loop"
    /\ i <= NumFiles
    /\ ~HistoryExists(hist[OutName(FName(i))])
    /\ present' = IF hist[OutName(FName(i))] # NoHist THEN present \cup {i} ELSE present
    /\ UNCHANGED <<prog, pvars, reportExists, hist, run, args, measurements, eheader, i,
                   warned, recs, rows, saved, edited, report0, prevRows, prevSaved>>
    /\ \E readable \in BOOLEAN :
         IF ~readable
         THEN \* load_func raises on an unreadable source
              /\ calls' = [calls EXCEPT ![i] = @ \cup {"load_func"}]
              /\ Raise("IOError")
              /\ UNCHANGED data
         ELSE IF args.modality \notin MODALITIES
         THEN \* MODALITIES[modality]: KeyError
              /\ calls' = [calls EXCEPT ![i] = @ \cup {"load_func"}]
              /\ Raise("KeyError")
              /\ UNCHANGED data
         ELSE IF FilterFails(args.fs, args.modality)
         THEN /\ calls' = [calls EXCEPT ![i] = @ \cup {"load_func", "filter_physio"}]
              /\ Raise("InvalidParameter")
              /\ UNCHANGED data
         ELSE /\ calls' = [calls EXCEPT ![i] =
                             @ \cup {"load_func", "filter_physio", "peakfind_physio"}]
              /\ data' = Detected(i)
              /\ pc' = "edit"
              /\ UNCHANGED <<report, buf, err>>

\* lines 229-230: edit_physio unless noedit
EditRecord ==
    /\ prog = "workflow"
    /\ pc = "edit"
    /\ IF args.noedit
       THEN UNCHANGED <<data, edited, calls>>
       ELSE /\ \E d \in EditResults(data) :
                 /\ data' = d
                 /\ edited' = IF d # data THEN edited \cup {i} ELSE edited
            /\ calls' = [calls EXCEPT ![i] = @ \cup {"edit_physio"}]
    /\ pc' = "save"
    /\ UNCHANGED <<prog, pvars, reportExists, report, hist, run, args, measurements,
                   eheader, i, buf, warned, err, present, recs, rows, saved,
                   report0, prevRows, prevSaved>>

\* lines 233-234: save_history if savehistory
SaveRecord ==
    /\ prog = "workflow"
    /\ pc = "save"
    /\ IF args.savehistory
       THEN /\ hist' = [hist EXCEPT ![OutName(FName(i))] = SaveHistoryRec(data)]
            /\ saved' = saved \cup {i}
       ELSE UNCHANGED <<hist, saved>>
    /\ pc' = "hrv"
    /\ UNCHANGED <<prog, pvars, reportExists, report, run, args, measurements, eheader, i,
                   data, buf, warned, err, calls, present, recs, rows, edited,
                   report0, prevRows, prevSaved>>

\* lines 237-241: HRV, format, dest.write(row). dest is block-buffered: the
\* row stays in the buffer unless the buffer's size is exceeded
WriteRow ==
    /\ prog = "workflow"
    /\ pc = "hrv"
    /\ UNCHANGED <<prog, pvars, reportExists, hist, run, args, measurements, eheader,
                   data, warned, calls, present, saved, edited, report0, prevRows,
                   prevSaved>>
    /\ IF HRVFails(data)
       THEN /\ Raise("InsufficientData")
            /\ UNCHANGED <<i, recs, rows>>
       ELSE /\ recs' = [recs EXCEPT ![i] = data]
            /\ IF FormatFails(data, measurements)
               THEN /\ Raise("ValueError")
                    /\ UNCHANGED <<i, rows>>
               ELSE LET row == Row(FName(i), data, measurements)
                    IN  /\ rows' = [rows EXCEPT ![i] = row]
                        /\ i' = i + 1
                        /\ pc' = "loop"
                        /\ UNCHANGED err
                        /\ report' = report \o Spilled(buf \o row)
                        /\ buf' = Held(buf \o row)

\* the loop is over: leaving the with block closes dest
Finish ==
    /\ prog = "workflow"
    /\ pc = "loop"
    /\ i > NumFiles
    /\ report' = report \o buf
    /\ buf' = <<>>
    /\ pc' = "done"
    /\ UNCHANGED <<prog, pvars, reportExists, hist, run, args, measurements, eheader, i,
                   data, warned, err, calls, present, recs, rows, saved, edited,
                   report0, prevRows, prevSaved>>

\* the process dies (kill, power loss, crash of the GUI toolkit): what dest
\* still holds in its buffer never reaches the file
Kill ==
    /\ prog = "workflow"
    /\ pc \in Running
    /\ pc' = "killed"
    /\ buf' = <<>>
    /\ UNCHANGED <<prog, pvars, reportExists, report, hist, run, args, measurements,
                   eheader, i, data, warned, err, calls, present, recs, rows,
                   saved, edited, report0, prevRows, prevSaved>>

\* ------------------------------------------------------------ peakdet()
PNone == <<-1>>             \* phys_idx=None
TrigNone == -1              \* chtrig=None, and find_chtrig finding nothing

\* info["Columns"] of the sidecar: the files the call may be given
Layouts == {<<"time", "trigger", "cardiac">>, <<"time", "cardiac", "ppg">>}

\* positions are 0-based, as in the code
ColAt(layout, k) == layout[k + 1]
Positions(layout) == 0..(Len(layout) - 1)

\* info["SamplingFrequency"] when it is a list: one entry per original column
SFList(k) == 100 * (k + 1)
\* info["SamplingFrequency"] when it is a single number
SFScalar == 1000

\* data.columns.get_loc("time")
TimeLoc(layout) == CHOOSE k \in Positions(layout) : ColAt(layout, k) = "time"

\* find_chtrig(data): the column named as a trigger, if any
FindChtrig(layout) ==
    IF \E k \in Positions(layout) : ColAt(layout, k) = "trigger"
    THEN CHOOSE k \in Positions(layout) : ColAt(layout, k) = "trigger"
    ELSE TrigNone

RECURSIVE Without(_, _)
\* data.drop(columns, axis=1): the positions left, in order
Without(cols, dropped) ==
    IF Len(cols) = 0 THEN <<>>
    ELSE IF Head(cols) \in dropped THEN Without(Tail(cols), dropped)
    ELSE <<Head(cols)>> \o Without(Tail(cols), dropped)

AllCols(layout) == [k \in 1..Len(layout) |-> k - 1]

\* line 187/189: the sampling frequency given to the idx-th remaining column
FsFor(isList, idx) == IF isList THEN SFList(idx) ELSE SFScalar

PeakdetInputs ==
    [layout : Layouts,
     sfIsList : BOOLEAN,
     config : {{"cardiac", "ppg", "trigger", "time"}, {"cardiac", "time"}},
     phys_idx : {PNone, <<1>>, <<2>>, <<1, 2>>, <<3>>},
     chtrig : {TrigNone, 0, 1, 2},
     manual_detector : BOOLEAN,
     outfile : {"None", "out"}]

PeakdetIdle ==
    /\ pargs = [layout |-> <<"time", "trigger", "cardiac">>, sfIsList |-> TRUE,
                config |-> {"cardiac", "time"}, phys_idx |-> PNone,
                chtrig |-> TrigNone, manual_detector |-> TRUE, outfile |-> "None"]
    /\ ppc = "idle"
    /\ pcols = <<>>
    /\ pidx = 0
    /\ perr = ""
    /\ searched = FALSE
    /\ physios = <<>>
    /\ processed = {}
    /\ outputs = {}

PeakdetInit ==
    /\ pargs \in PeakdetInputs
    /\ ppc = "start"
    /\ pcols = AllCols(pargs.layout)
    /\ pidx = 0
    /\ perr = ""
    /\ searched = FALSE
    /\ physios = <<>>
    /\ processed = {}
    /\ outputs = {}

PFail(e) ==
    /\ ppc' = "failed"
    /\ perr' = e

\* lines 163-165: keep only the columns of phys_idx
KeepPhysIdx ==
    /\ prog = "peakdet"
    /\ ppc = "start"
    /\ pargs.phys_idx # PNone
    /\ IF \E k \in 1..Len(pargs.phys_idx) : pargs.phys_idx[k] \notin Positions(pargs.layout)
       THEN PFail("IndexError") /\ UNCHANGED pcols
       ELSE pcols' = pargs.phys_idx /\ ppc' = "loop" /\ UNCHANGED perr
    /\ UNCHANGED <<prog, wvars, pargs, pidx, searched, physios, processed, outputs>>

\* lines 168-170: chtrig != 0. data.columns[chtime, chtrig] indexes a
\* one-dimensional Index with a pair: with an integer chtrig numpy refuses
\* (IndexError); with chtrig None the pair reads as (chtime, newaxis) and,
\* depending on the array behind the Index, selects the time column alone or
\* is refused as well
DropGiven ==
    /\ prog = "peakdet"
    /\ ppc = "start"
    /\ pargs.phys_idx = PNone
    /\ pargs.chtrig # 0
    /\ IF pargs.chtrig # TrigNone
       THEN PFail("IndexError") /\ UNCHANGED pcols
       ELSE \/ /\ pcols' = Without(pcols, {TimeLoc(pargs.layout)})
               /\ ppc' = "loop"
               /\ UNCHANGED perr
            \/ PFail("IndexError") /\ UNCHANGED pcols
    /\ UNCHANGED <<prog, wvars, pargs, pidx, searched, physios, processed, outputs>>

\* lines 171-181: chtrig == 0. find_chtrig runs, then both branches read
\* chtime, which is bound only in the other arm: UnboundLocalError
DropSearched ==
    /\ prog = "peakdet"
    /\ ppc = "start"
    /\ pargs.phys_idx = PNone
    /\ pargs.chtrig = 0
    /\ searched' = TRUE
    /\ PFail("UnboundLocalError")
    /\ UNCHANGED <<prog, wvars, pargs, pcols, pidx, physios, processed, outputs>>

\* lines 184-206: one turn of the column loop
ProcessColumn ==
    /\ prog = "peakdet"
    /\ ppc = "loop"
    /\ pidx < Len(pcols)
    /\ LET col == pcols[pidx + 1]
           name == ColAt(pargs.layout, col)
       IN  /\ physios' = Append(physios, [col |-> col, fs |-> FsFor(pargs.sfIsList, pidx)])
           /\ IF name \notin pargs.config
              THEN \* config[col]: KeyError
                   /\ PFail("KeyError")
                   /\ UNCHANGED <<pidx, processed, outputs>>
              ELSE /\ processed' = processed \cup {col}
                   /\ IF pargs.outfile = "None"
                      THEN \* outfile + f"_{col}...": TypeError
                           /\ PFail("TypeError")
                           /\ UNCHANGED <<pidx, outputs>>
                      ELSE \* manual_peaks(...), or save_physio and save_history
                           /\ outputs' = outputs \cup
                                {[col |-> col,
                                  by |-> IF pargs.manual_detector
                                         THEN "manual_peaks" ELSE "save_physio"]}
                           /\ pidx' = pidx + 1
                           /\ UNCHANGED <<ppc, perr>>
    /\ UNCHANGED <<prog, wvars, pargs, pcols, searched>>

\* line 208: the loop is over
PeakdetDone ==
    /\ prog = "peakdet"
    /\ ppc = "loop"
    /\ pidx = Len(pcols)
    /\ ppc' = "done"
    /\ UNCHANGED <<prog, wvars, pargs, pcols, pidx, perr, searched, physios,
                   processed, outputs>>

WorkflowIdle ==
    /\ reportExists = FALSE
    /\ report = <<>>
    /\ hist = [n \in HistNames |-> NoHist]
    /\ run = MaxRuns
    /\ pc = "idle"
    /\ args = DefaultArgs
    /\ measurements = <<>>
    /\ eheader = <<>>
    /\ i = 1
    /\ data = NoData
    /\ buf = <<>>
    /\ warned = FALSE
    /\ err = ""
    /\ calls = NoCalls
    /\ present = {}
    /\ recs = NoRecs
    /\ rows = NoRows
    /\ saved = {}
    /\ edited = {}
    /\ report0 = <<>>
    /\ prevRows = NoRows
    /\ prevSaved = {}

Init ==
    \/ prog = "workflow" /\ WorkflowInit /\ PeakdetIdle
    \/ prog = "peakdet" /\ WorkflowIdle /\ PeakdetInit

Next ==
    \/ \E a \in ArgChoices : StartRun(a)
    \/ LoadFromHistory
    \/ LoadAndDetect
    \/ EditRecord
    \/ SaveRecord
    \/ WriteRow
    \/ Finish
    \/ Kill
    \/ KeepPhysIdx
    \/ DropGiven
    \/ DropSearched
    \/ ProcessColumn
    \/ PeakdetDone

Spec == Init /\ [][Next]_vars

\* =================================================================
\* Properties
\* =================================================================
Heavy == {"load_func", "filter_physio", "peakfind_physio"}

Ended == {"done", "failed"}

\* the call got past its startup (lines 157-198) and opened the report
Opened == pc \in Running \cup Ended /\ err \notin {"TypeError", "IndexError"}

RECURSIVE RowsText(_)
\* the rows of files 1..n of this call, one after the other
RowsText(n) == IF n = 0 THEN <<>> ELSE RowsText(n - 1) \o rows[n]

\* the text this call has written to dest so far
Written == SubSeq(report \o buf, Len(report0) + 1, Len(report) + Len(buf))

\* a row with an empty field for every metric the HRV result lacks
BlankRow(fname, d, meas) ==
    Append(Join(<<fname>> \o [k \in 1..Len(meas) |->
                    IF GetAttr(d, meas[k]) = EmptyStr THEN ""
                    ELSE Format5(GetAttr(d, meas[k]))]), NL)

\* the existing report lists other metrics than the call requested
HeaderMismatch ==
    /\ eheader # <<>>
    /\ ParseHeader(eheader) # MapAttr(args.measurements)

\* C1 (as claimed): in a second call that finds a file's history artifact,
\* the record comes from load_history, neither the loader nor filter_physio
\* nor peakfind_physio is invoked for the file, and the row written equals
\* the row the first call wrote for it.
C1_ResumeSameRow ==
    \A f \in present :
        run >= 2 =>
            /\ "load_history" \in calls[f]
            /\ calls[f] \cap Heavy = {}
            /\ (rows[f] # <<>> /\ prevRows[f] # <<>>) => rows[f] = prevRows[f]

\* C1 (amended): as C1, but the rows are equal only when the first call
\* saved the file's history and the editor of the second call left the
\* record unchanged.
C1_ResumeSameRowUnedited ==
    \A f \in present :
        run >= 2 =>
            /\ "load_history" \in calls[f]
            /\ calls[f] \cap Heavy = {}
            /\ (rows[f] # <<>> /\ prevRows[f] # <<>> /\ f \in prevSaved /\ f \notin edited)
                  => rows[f] = prevRows[f]

\* C1 witness: a second call resumed a file from the history the first call
\* saved and wrote its row again
C1_Witness ==
    \E f \in present :
        /\ run = 2
        /\ f \in prevSaved
        /\ f \notin edited
        /\ calls[f] = {"load_history", "edit_physio"}
        /\ prevRows[f] # <<>>
        /\ rows[f] = prevRows[f]

\* C2: when the report exists with a header listing other metrics than
\* requested, the call warns, writes no header, and every row it writes
\* carries the values of the existing header's metrics, in that order.
C2_ExistingHeaderWins ==
    (Opened /\ HeaderMismatch) =>
        /\ warned
        /\ Written = RowsText(i - 1)
        /\ \A f \in FileIds :
              rows[f] # <<>> => rows[f] = Row(FName(f), recs[f], ParseHeader(eheader))

\* C2 witness: a call that requested other metrics than the existing header
\* lists has written a row
C2_Witness ==
    /\ Opened
    /\ HeaderMismatch
    /\ Len(ParseHeader(eheader)) # Len(MapAttr(args.measurements))
    /\ \E f \in FileIds : rows[f] # <<>>

\* C3: every file whose HRV result was obtained has its row written, the
\* path followed by one field per metric in effect, a metric the result
\* lacks as an empty field; the rows are written one per file, in file order.
C3_RowPerFile ==
    Opened =>
        /\ \A f \in FileIds :
              recs[f] # NoData => rows[f] = BlankRow(FName(f), recs[f], measurements)
        /\ Written = HeadToWrite(eheader # <<>>, HeadOf(measurements)) \o RowsText(i - 1)

\* C4: when HRV fails on a record with fewer than 2 peaks the call goes on
\* and the file's row is written with empty metric values.
C4_InsufficientDataRow ==
    err = "InsufficientData" =>
        /\ pc # "failed"
        /\ rows[i] = Append(Join(<<FName(i)>> \o [k \in 1..Len(measurements) |-> ""]), NL)

\* C5: when load, filter or detection fails for file K, every file after K
\* still gets its row by the end of the call.
C5_ErrorIsolation ==
    (pc \in Ended /\ err \in {"IOError", "InvalidParameter"}) =>
        \A f \in FileIds : f > i => rows[f] # <<>>

\* C6: once file K has been processed, the rows of files 1..K-1 are in the
\* persisted report, whatever happens to the process.
C6_RowsDurable ==
    pc \in Running \cup {"killed"} =>
        \A f \in FileIds :
            f < i - 1 =>
                \E k \in 1..Len(ReadLines(report)) : ReadLines(report)[k] = rows[f]

\* C7: a missing configuration entry (MODALITIES[modality] in workflow(),
\* config[col] in peakdet()) ends the call before anything was loaded,
\* processed or written.
C7_ConfigErrorFirst ==
    /\ (pc = "failed" /\ err = "KeyError") =>
          /\ \A f \in FileIds : calls[f] = {} /\ rows[f] = <<>>
          /\ saved = {}
          /\ report = report0
    /\ (ppc = "failed" /\ perr = "KeyError") =>
          /\ processed = {}
          /\ outputs = {}

\* C8: with phys_idx None, chtrig None runs the trigger search and drops the
\* time column and the trigger found (the time column alone if none is
\* found); a column number given as chtrig drops the time column and that
\* column without a search; the column loop is reached without error.
C8_ColumnSelection ==
    (ppc \in {"loop", "done", "failed"} /\ pargs.phys_idx = PNone /\ pargs.chtrig # 0) =>
        /\ perr \notin {"IndexError", "UnboundLocalError"}
        /\ IF pargs.chtrig = TrigNone
           THEN /\ searched
                /\ pcols = Without(AllCols(pargs.layout),
                                   {TimeLoc(pargs.layout), FindChtrig(pargs.layout)})
           ELSE /\ ~searched
                /\ pcols = Without(AllCols(pargs.layout),
                                   {TimeLoc(pargs.layout), pargs.chtrig})

\* C9: with a list of sampling frequencies, every column processed is given
\* the entry at its position in the original file.
C9_FsOfOriginalColumn ==
    pargs.sfIsList =>
        \A k \in 1..Len(physios) : physios[k].fs = SFList(physios[k].col)

\* C10: the warning is given only when the existing header's metrics differ
\* from the requested ones, and a finished call leaves a report with exactly
\* one header line, the first.
C10_HeaderOnce ==
    /\ (Opened /\ warned) => HeaderMismatch
    /\ pc = "done" =>
          LET lines == ReadLines(report)
          IN  /\ Len(lines) >= 1
              /\ \A k \in 1..Len(lines) : (lines[k][1] = "filename") <=> (k = 1)

====
